---------------------------- MODULE Spec2Model ----------------------------
(***************************************************************************)
(* Model of src/src/factory/Layer.js (LayerFactory of Wegue).              *)
(*                                                                         *)
(* A caller owns one layer config object lConf and passes it to            *)
(* LayerFactory.getInstance.  For the types WMS, XYZ, OSM, VECTOR and      *)
(* VECTORTILE the call runs to completion in one step; for LAYERCOLLECTION *)
(* it issues a fetch and the continuation after the await of line 205 runs *)
(* when the fetch settles.  Every nested collection is a call of its own,  *)
(* named by its path of manifest indices below the caller's call (Root).   *)
(*                                                                         *)
(* JavaScript values:                                                      *)
(*  - lid and name are strings whose length matters; they are sequences of *)
(*    one-character strings, and undefinedStr is the value undefined;      *)
(*  - the other config fields are passed through unread; they are opaque   *)
(*    strings, and Undef is the value undefined (an absent property);      *)
(*  - a layer is the record of the options handed to the OpenLayers        *)
(*    constructor (an option the code does not pass is Undef).             *)
(* Fields that no property below reads (displayInLayerList, selectable,    *)
(* attributions, layers, tiled, serverType, style, hoverable, ...) are     *)
(* left out of the records.                                                *)
(***************************************************************************)
EXTENDS Integers, Sequences, FiniteSets, TLC

VARIABLES
  lConf,          \* the caller's config object (getInstance writes its lid)
  before,         \* copy of lConf taken when the current call started
  pc,             \* caller: "idle" | "awaiting" | "returned"
  ret,            \* what the caller's current call has produced so far
  ncalls,         \* number of getInstance calls the caller has made
  calls,          \* path -> state of one createLayersFromCollection call
  server,         \* url -> manifest the server holds, for the urls fetched so far
  deep,           \* parity of the fetches completed by loads beyond MaxDepth
  formatMapping   \* the factory's format-name table

vars == <<lConf, before, pc, ret, ncalls, calls, server, deep, formatMapping>>

---------------------------------------------------------------------------
(* Bounds *)

MaxDigits  == 6   \* longest base-36 fraction Math.random() is drawn with
MaxDepth   == 1   \* deepest nesting of collection calls below the caller's
MaxCalls   == 2   \* calls the caller makes with its config object

---------------------------------------------------------------------------
(* JavaScript values *)

undefinedStr == <<"undefined">>
Undef        == "<undefined>"

\* !v for a string-valued field: undefined and "" are falsy
Falsy(v) == v = undefinedStr \/ v = <<>>

NonEmpty(v) == v # <<>> /\ v # undefinedStr

Base36 == {"0","1","2","3","4","5","6","7","8","9",
           "a","b","c","d","e","f","g","h","i","j","k","l","m",
           "n","o","p","q","r","s","t","u","v","w","x","y","z"}

Min(a, b) == IF a < b THEN a ELSE b

\* The values Math.random() returns, each given by the digits of its
\* base-36 fraction: <<>> is 0, <<"i">> is 0.5 (18/36), <<"i","i">> is 18/36 +
\* 18/1296, ...  (Math.random() is in [0,1) and 0 is a possible value.)
RandomFractions ==
  { [i \in 1..n |-> "i"] : n \in 0..MaxDigits }

\* Number.prototype.toString(36) of a value in [0,1)
toString36(r) == IF r = <<>> THEN <<"0">> ELSE <<"0", ".">> \o r

\* String.prototype.substr(start, length), start counted from 0
substr(s, start, length) ==
  IF start >= Len(s) THEN <<>>
  ELSE SubSeq(s, start + 1, Min(Len(s), start + length))

---------------------------------------------------------------------------
(* The factory's pure parts *)

\* randomId with substr(0, 5): the "0." of the number is kept
randomId_fromStart(r) == substr(toString36(r), 0, 5)

\* randomId(), as a function of the value r that Math.random() returns
randomId(r) == substr(toString36(r), 2, 5)

\* The table of lines 25-30: format literal -> OpenLayers format constructor
FormatTable ==
  [f \in {"MVT", "GeoJSON", "TopoJSON", "KML"} |->
     CASE f = "MVT"      -> "MvtFormat"
       [] f = "GeoJSON"  -> "GeoJsonFormat"
       [] f = "TopoJSON" -> "TopoJsonFormat"
       [] f = "KML"      -> "KmlFormat"]

\* formatMapping is an object literal, so this.formatMapping[key] also finds
\* what the literal inherits from Object.prototype: 'constructor' is the
\* function Object, which new accepts; 'toString' is a built-in method, which
\* new rejects like undefined.
ObjectPrototype ==
  [k \in {"constructor", "toString"} |->
     IF k = "constructor" THEN "Object" ELSE "builtin method"]

\* this.formatMapping[key]
Lookup(fm, key) ==
  IF key \in DOMAIN fm THEN fm[key]
  ELSE IF key \in DOMAIN ObjectPrototype THEN ObjectPrototype[key]
  ELSE Undef

\* new F(...) succeeds exactly for a constructor; otherwise a TypeError
Constructible(F) ==
  F \in {"MvtFormat", "GeoJsonFormat", "TopoJsonFormat", "KmlFormat", "Object"}

Null    == [tag |-> "null"]
Throw   == [tag |-> "throw"]      \* the call throws: its promise is rejected
Promise == [tag |-> "promise"]    \* the promise of createLayersFromCollection
Pending == [tag |-> "pending"]

createWmsLayer(c) ==
  [tag |-> "layer", class |-> "TileLayer", source |-> "TileWMS",
   name |-> c.name, lid |-> c.lid, extent |-> c.extent,
   visible |-> c.visible, opacity |-> c.opacity,
   url |-> c.url, format |-> Undef]

createXyzLayer(c) ==
  [tag |-> "layer", class |-> "TileLayer", source |-> "XYZ",
   name |-> c.name, lid |-> c.lid, extent |-> Undef,
   visible |-> c.visible, opacity |-> c.opacity,
   url |-> c.url, format |-> Undef]

createOsmLayer(c) ==
  [tag |-> "layer", class |-> "TileLayer", source |-> "OSM",
   name |-> c.name, lid |-> c.lid, extent |-> Undef,
   visible |-> c.visible, opacity |-> c.opacity,
   url |-> Undef, format |-> Undef]

createVectorLayer(c, fm) ==
  LET F == Lookup(fm, c.format) IN
  IF ~Constructible(F) THEN Throw
  ELSE [tag |-> "layer", class |-> "VectorLayer", source |-> "Vector",
        name |-> c.name, lid |-> c.lid, extent |-> c.extent,
        visible |-> c.visible, opacity |-> c.opacity,
        url |-> c.url, format |-> F]

createVectorTileLayer(c, fm) ==
  LET F == Lookup(fm, c.format) IN
  IF ~Constructible(F) THEN Throw
  ELSE [tag |-> "layer", class |-> "VectorTileLayer", source |-> "VectorTile",
        name |-> c.name, lid |-> c.lid, extent |-> Undef,
        visible |-> c.visible, opacity |-> c.opacity,
        url |-> c.url, format |-> F]

\* applyLid without the test of line 49: the lid is always replaced
applyLid_always(c, r) == [c EXCEPT !.lid = randomId(r)]

\* lines 49-51: the config object after the lid has been applied
applyLid(c, r) == IF Falsy(c.lid) THEN [c EXCEPT !.lid = randomId(r)] ELSE c

\* dispatch with an else branch that throws instead of returning null
dispatch_throwsOnUnknown(c, fm) ==
  CASE c.type = "WMS"             -> createWmsLayer(c)
    [] c.type = "XYZ"             -> createXyzLayer(c)
    [] c.type = "OSM"             -> createOsmLayer(c)
    [] c.type = "VECTOR"          -> createVectorLayer(c, fm)
    [] c.type = "VECTORTILE"      -> createVectorTileLayer(c, fm)
    [] c.type = "LAYERCOLLECTION" -> Promise
    [] OTHER                      -> Throw

\* dispatch that sends VECTOR configs to the collection loader as well, so
\* that their url is fetched by the factory
dispatch_fetchesVector(c, fm) ==
  CASE c.type = "WMS"             -> createWmsLayer(c)
    [] c.type = "XYZ"             -> createXyzLayer(c)
    [] c.type = "OSM"             -> createOsmLayer(c)
    [] c.type = "VECTOR"          -> Promise
    [] c.type = "VECTORTILE"      -> createVectorTileLayer(c, fm)
    [] c.type = "LAYERCOLLECTION" -> Promise
    [] OTHER                      -> Null

\* lines 54-68: the dispatch on the type
dispatch(c, fm) ==
  CASE c.type = "WMS"             -> createWmsLayer(c)
    [] c.type = "XYZ"             -> createXyzLayer(c)
    [] c.type = "OSM"             -> createOsmLayer(c)
    [] c.type = "VECTOR"          -> createVectorLayer(c, fm)
    [] c.type = "VECTORTILE"      -> createVectorTileLayer(c, fm)
    [] c.type = "LAYERCOLLECTION" -> Promise
    [] OTHER                      -> Null

\* getInstance(lConf) up to its return: the config object as the call leaves
\* it, and what the call returns (Promise: createLayersFromCollection was
\* entered and its fetch of conf.url issued).  r is the value Math.random()
\* returns if randomId is called.
getInstance(c, r, fm) ==
  LET c2 == applyLid(c, r) IN [conf |-> c2, out |-> dispatch(c2, fm)]

---------------------------------------------------------------------------
(* Inputs *)

Urls == {"u1", "u2"}

LayerTypes == {"WMS", "XYZ", "OSM", "VECTOR", "VECTORTILE"}

\* "UNKNOWN" is an unsupported type, Undef a config without type
Types == LayerTypes \cup {"LAYERCOLLECTION", "UNKNOWN", Undef}

\* the four supported formats, an unsupported one, a missing one, and two
\* names that Object.prototype defines
Formats == {"MVT", "GeoJSON", "TopoJSON", "KML",
            "Shapefile", Undef, "constructor", "toString"}

Lids == {undefinedStr, <<>>, <<"l", "1">>}

Config(t, l, n, u, f, e, v, o) ==
  [type |-> t, lid |-> l, name |-> n, url |-> u, format |-> f,
   extent |-> e, visible |-> v, opacity |-> o]

\* the configs the caller passes in
Configs ==
  { Config(t, l, <<"n">>, "u1", f, e, v, "0.5") :
      t \in Types \ {"LAYERCOLLECTION"}, l \in Lids, f \in Formats,
      e \in {Undef, "[0,0,9,9]"}, v \in {"true", "false"} }
  \cup
  { Config("LAYERCOLLECTION", l, <<"n">>, u, Undef, Undef, "true", "1") :
      l \in Lids, u \in Urls }

\* the layer definitions a manifest is made of
eOsm   == Config("OSM", <<"q">>, <<"a">>, Undef, Undef, "[0,0,9,9]", "true", "1")
eVec   == Config("VECTOR", undefinedStr, <<"b">>, "u1", "GeoJSON", "[0,0,9,9]", "false", "0.5")
eAnon  == Config("OSM", <<"q">>, undefinedStr, Undef, Undef, Undef, "true", "1")
eEmpty == Config("WMS", undefinedStr, <<>>, "u1", Undef, "[0,0,9,9]", "false", "0.5")
eBad   == Config("VECTOR", undefinedStr, <<"x">>, "u1", "Shapefile", Undef, "true", "1")
eUnk   == Config("UNKNOWN", undefinedStr, <<"c">>, Undef, Undef, Undef, "true", "1")
eColl1 == Config("LAYERCOLLECTION", undefinedStr, <<"g">>, "u1", Undef, Undef, "true", "1")
eColl2 == Config("LAYERCOLLECTION", undefinedStr, <<"h">>, "u2", Undef, Undef, "true", "1")

\* the JSON arrays a fetch can yield
Manifests ==
  { <<>>,
    <<eOsm, eVec>>, <<eAnon, eOsm>>, <<eOsm, eEmpty>>, <<eUnk, eOsm>>,
    <<eOsm, eBad>>, <<eBad, eOsm>>, <<eColl2, eBad>>,
    <<eColl1>>, <<eColl2>>, <<eColl2, eVec>>, <<eColl1, eColl2>> }

\* the longest manifest
MaxLen == CHOOSE n \in 0..10 : /\ \E m \in Manifests : Len(m) = n
                              /\ \A m \in Manifests : Len(m) <= n

IsCollection(e) == e.type = "LAYERCOLLECTION"

NumCollections(m) == Cardinality({ i \in 1..Len(m) : IsCollection(m[i]) })

---------------------------------------------------------------------------
(* createLayersFromCollection *)

Root == <<0>>                   \* the caller's call; Append(p, i) is the call
Depth(p) == Len(p) - 1          \* made for entry i of the manifest of call p

\* mapEntry without line 208: the entry keeps the lid it came with
mapEntry_keepsLid(layerDef, r, fm) == getInstance(layerDef, r, fm)

\* line 208, then line 209 up to the return of the nested getInstance
mapEntry(layerDef, r, fm) ==
  getInstance([layerDef EXCEPT !.lid = layerDef.name], r, fm)

\* A call record: url, phase ("fetching": awaiting line 205; "rejected": the
\* fetch or the JSON parse failed; "mapped": lines 206-210 have run), the
\* manifest as fetched, and what the callback of line 206 returned for each
\* entry (Promise for a nested collection, whose call is then in calls).
NewCall(u) ==
  [url |-> u, phase |-> "fetching", response |-> <<>>, elems |-> <<>>]

\* Outcome with Promise.allSettled in place of Promise.all: the rejected
\* elements are dropped and the others returned
RECURSIVE Outcome_allSettled(_, _)
Outcome_allSettled(cs, p) ==
  LET c == cs[p]
      sub(i) == IF c.elems[i].tag # "promise" THEN c.elems[i]
                ELSE IF Append(p, i) \in DOMAIN cs
                THEN Outcome_allSettled(cs, Append(p, i)) ELSE Pending
      n == Len(c.elems)
      IsValue(x) == x.tag # "throw"
  IN  IF c.phase = "fetching" THEN Pending
      ELSE IF c.phase = "rejected" THEN Throw
      ELSE IF \E i \in 1..n : sub(i).tag = "pending" THEN Pending
      ELSE [tag |-> "array", items |-> SelectSeq([i \in 1..n |-> sub(i)], IsValue)]

\* Outcome with a failed fetch that is caught and never settles the promise
RECURSIVE Outcome_swallowsRejection(_, _)
Outcome_swallowsRejection(cs, p) ==
  LET c == cs[p]
      sub(i) == IF c.elems[i].tag # "promise" THEN c.elems[i]
                ELSE IF Append(p, i) \in DOMAIN cs
                THEN Outcome_swallowsRejection(cs, Append(p, i)) ELSE Pending
      n == Len(c.elems)
  IN  IF c.phase \in {"fetching", "rejected"} THEN Pending
      ELSE IF \E i \in 1..n : sub(i).tag = "throw" THEN Throw
      ELSE IF \E i \in 1..n : sub(i).tag = "pending" THEN Pending
      ELSE [tag |-> "array", items |-> [i \in 1..n |-> sub(i)]]

\* Loads nested deeper than MaxDepth have no call record: the element of
\* their parent stays Promise while they run (see DeepFetchResolves).
\*
\* What the promise of call p has settled to: Promise.all rejects as soon as
\* one element is rejected and is fulfilled with the array of the values, in
\* the order of the elements, once all are fulfilled.
RECURSIVE Outcome(_, _)
Outcome(cs, p) ==
  LET c == cs[p]
      sub(i) == IF c.elems[i].tag # "promise" THEN c.elems[i]
                ELSE IF Append(p, i) \in DOMAIN cs
                THEN Outcome(cs, Append(p, i)) ELSE Pending
      n == Len(c.elems)
  IN  IF c.phase = "fetching" THEN Pending
      ELSE IF c.phase = "rejected" THEN Throw
      ELSE IF \E i \in 1..n : sub(i).tag = "throw" THEN Throw
      ELSE IF \E i \in 1..n : sub(i).tag = "pending" THEN Pending
      ELSE [tag |-> "array", items |-> [i \in 1..n |-> sub(i)]]

\* the calls whose fetch (line 205) is in flight
InFlight == { p \in DOMAIN calls : calls[p].phase = "fetching" }

\* the pending loads just beyond MaxDepth, <<p, i>> for entry i of call p;
\* each of them has a fetch in flight, its own or one of a load nested in it
IsBeyond(p, i) ==
  /\ p \in DOMAIN calls
  /\ Depth(p) = MaxDepth
  /\ i \in 1..Len(calls[p].elems)
  /\ calls[p].elems[i].tag = "promise"

Beyond ==
  UNION { { <<p, i>> : i \in { j \in 1..Len(calls[p].elems) : IsBeyond(p, j) } } :
            p \in DOMAIN calls }

\* a lower bound of the number of fetches in flight, exact when no manifest
\* has two collection entries
NumInFlight == Cardinality(InFlight) + Cardinality(Beyond)

---------------------------------------------------------------------------
(* Behaviour *)

Init ==
  /\ lConf \in Configs
  /\ before = lConf
  /\ pc = "idle"
  /\ ret = Pending
  /\ ncalls = 0
  /\ calls = <<>>
  /\ server = <<>>
  /\ deep = 0
  /\ formatMapping = FormatTable

\* The caller calls LayerFactory.getInstance(lConf); it calls again only
\* when the fetches of its previous call are over, so calls is the load of
\* the current call.
GetInstance ==
  /\ pc \in {"idle", "returned"}
  /\ NumInFlight = 0
  /\ ncalls < MaxCalls
  /\ \E r \in RandomFractions :
       LET g == getInstance(lConf, r, formatMapping) IN
       /\ lConf' = g.conf
       /\ IF g.out.tag = "promise"
          THEN /\ calls' = (Root :> NewCall(g.conf.url))
               /\ ret' = Pending
               /\ pc' = "awaiting"
          ELSE /\ calls' = <<>>
               /\ ret' = g.out
               /\ pc' = "returned"
  /\ before' = lConf
  /\ ncalls' = ncalls + 1
  /\ UNCHANGED <<server, deep, formatMapping>>

\* what the caller has received once the calls are cs
Settle(cs) == IF ret.tag = "pending" THEN Outcome(cs, Root) ELSE ret

\* One value of Math.random() for every entry of m; an entry with a name
\* never reaches randomId, and its value is fixed to 0 here.
RandomsFor(m) ==
  { rs \in [1..Len(m) -> RandomFractions] :
      \A i \in 1..Len(m) : ~Falsy(m[i].name) => rs[i] = <<>> }

\* The fetch of call p and its json() are fulfilled with manifest m; lines
\* 206-210 run: every entry is mapped, in order, and the nested collections
\* issue their fetches.  rs[i] is what Math.random() returns for entry i.
FetchResolves(p) ==
  /\ p \in DOMAIN calls
  /\ calls[p].phase = "fetching"
  /\ \E m \in (IF calls[p].url \in DOMAIN server
               THEN {server[calls[p].url]} ELSE Manifests) :
       /\ \E rs \in RandomsFor(m) :
            LET res   == [i \in 1..Len(m) |-> mapEntry(m[i], rs[i], formatMapping)]
                elems == [i \in 1..Len(m) |-> res[i].out]
                kids  == IF Depth(p) < MaxDepth
                         THEN { i \in 1..Len(m) : elems[i].tag = "promise" }
                         ELSE {}
                cs    == [q \in DOMAIN calls \cup { Append(p, i) : i \in kids } |->
                            IF q = p
                            THEN [calls[p] EXCEPT !.phase = "mapped",
                                                  !.response = m,
                                                  !.elems = elems]
                            ELSE IF q \in DOMAIN calls THEN calls[q]
                            ELSE NewCall(res[q[Len(q)]].conf.url)]
            IN  /\ calls' = cs
                /\ ret' = Settle(cs)
                /\ pc' = IF Settle(cs).tag = "pending" THEN "awaiting" ELSE "returned"
       /\ server' = (calls[p].url :> m) @@ server
  /\ UNCHANGED <<lConf, before, ncalls, deep, formatMapping>>

\* The fetch of call p, or the parse of its body, fails: the await of line
\* 205 throws and the promise of the call is rejected.
FetchRejects(p) ==
  /\ p \in DOMAIN calls
  /\ calls[p].phase = "fetching"
  /\ LET cs == [calls EXCEPT ![p].phase = "rejected"] IN
       /\ calls' = cs
       /\ ret' = Settle(cs)
       /\ pc' = IF Settle(cs).tag = "pending" THEN "awaiting" ELSE "returned"
  /\ UNCHANGED <<lConf, before, ncalls, server, deep, formatMapping>>

\* A fetch of the load <<p, i>> beyond MaxDepth, or of a load nested in it, is
\* fulfilled.  With two urls and MaxDepth >= 1 the load is at least the third
\* on its path, so it fetches a url that a load enclosing it has fetched: it
\* gets the manifest which led to it, maps it and issues the fetch of the next
\* nested collection, and so do the loads nested in it.  None of them is ever
\* fulfilled, and a fetch stays in flight.
DeepFetchResolves(p, i) ==
  /\ IsBeyond(p, i)
  /\ deep' = 1 - deep
  /\ UNCHANGED <<lConf, before, pc, ret, ncalls, calls, server, formatMapping>>

\* A fetch of the load <<p, i>> beyond MaxDepth, or of a load nested in it,
\* fails: the rejection reaches the promise that call p holds for entry i.
DeepFetchRejects(p, i) ==
  /\ IsBeyond(p, i)
  /\ LET cs == [calls EXCEPT ![p].elems[i] = Throw] IN
       /\ calls' = cs
       /\ ret' = Settle(cs)
       /\ pc' = IF Settle(cs).tag = "pending" THEN "awaiting" ELSE "returned"
  /\ UNCHANGED <<lConf, before, ncalls, server, deep, formatMapping>>

Paths == UNION { [1..k -> 0..MaxLen] : k \in 1..(MaxDepth + 1) }

Next ==
  \/ GetInstance
  \/ \E p \in Paths : FetchResolves(p)
  \/ \E p \in Paths : FetchRejects(p)
  \/ \E p \in Paths, i \in 1..MaxLen : DeepFetchResolves(p, i)
  \/ \E p \in Paths, i \in 1..MaxLen : DeepFetchRejects(p, i)

Spec == Init /\ [][Next]_vars

\* A fetch in flight completes, with a manifest or with a failure.
FetchSettles ==
  \/ \E p \in Paths : FetchResolves(p) \/ FetchRejects(p)
  \/ \E p \in Paths, i \in 1..MaxLen :
       DeepFetchResolves(p, i) \/ DeepFetchRejects(p, i)

\* the loads of the collection configs that come with a lid
FairInit == Init /\ lConf.type = "LAYERCOLLECTION" /\ NonEmpty(lConf.lid)

FairSpec == FairInit /\ [][Next]_vars /\ WF_vars(FetchSettles)

---------------------------------------------------------------------------
(* Vocabulary of the properties *)

SupportedFormats == {"MVT", "GeoJSON", "TopoJSON", "KML"}

Recognized == LayerTypes \cup {"LAYERCOLLECTION"}

\* an identifier of at most 5 characters, all of them base-36 digits
ShortBase36(v) ==
  /\ v # undefinedStr
  /\ Len(v) <= 5
  /\ \A i \in 1..Len(v) : v[i] \in Base36

\* the calls whose lines 206-210 have run
Mapped == { p \in DOMAIN calls : calls[p].phase = "mapped" }

\* every layer a getInstance call has built: the caller's, and the ones
\* built for the entries of a manifest
ProducedLayers ==
  (IF ret.tag = "layer" THEN {ret} ELSE {})
  \cup { x \in UNION { { calls[p].elems[i] : i \in 1..Len(calls[p].elems) } :
                         p \in Mapped } : x.tag = "layer" }

SourceOf(t) ==
  CASE t = "WMS" -> "TileWMS" [] t = "XYZ" -> "XYZ" [] t = "OSM" -> "OSM"
    [] t = "VECTOR" -> "Vector" [] t = "VECTORTILE" -> "VectorTile"

\* some fetch of the load has failed, or the getInstance of some entry threw
AnyFailure ==
  \E p \in DOMAIN calls :
    \/ calls[p].phase = "rejected"
    \/ \E i \in 1..Len(calls[p].elems) : calls[p].elems[i].tag = "throw"

\* the urls of call p and of the calls that enclose it
UrlsAbove(p) == { calls[SubSeq(p, 1, k)].url : k \in 1..Len(p) }

\* some manifest has a collection entry that loads the url of the call the
\* manifest belongs to, or of a call that encloses it
ReEntered ==
  \E p \in Mapped : \E i \in 1..Len(calls[p].response) :
    /\ IsCollection(calls[p].response[i])
    /\ calls[p].response[i].url \in UrlsAbove(p)

---------------------------------------------------------------------------
(* Properties *)

\* C1 (as claimed): every layer instance that getInstance produces, for the
\* caller or for an entry of a manifest, carries a non-empty lid.
C1_NonEmptyLid == \A l \in ProducedLayers : NonEmpty(l.lid)

\* C2 (as claimed): for every config with a recognized type the call returns
\* a layer whose identifier is the input lid if one was provided and
\* otherwise a generated identifier of exactly 5 base-36 characters.
C2_Original ==
  (pc = "returned" /\ before.type \in Recognized) =>
     /\ ret.tag = "layer"
     /\ IF ~Falsy(before.lid) THEN ret.lid = before.lid
        ELSE /\ ShortBase36(ret.lid)
             /\ Len(ret.lid) = 5

\* C2 (amended): for a config of type WMS, XYZ or OSM, or of type VECTOR or
\* VECTORTILE with one of the four supported formats, the call returns a
\* layer whose identifier is the input lid if that is non-empty and otherwise
\* a generated identifier of at most 5 characters, all base-36 digits; for
\* LAYERCOLLECTION what the call resolves to is an array, not a layer.
C2_Identifier ==
  /\ ( /\ pc = "returned"
       /\ before.type \in LayerTypes
       /\ before.type \in {"VECTOR", "VECTORTILE"} => before.format \in SupportedFormats )
     => /\ ret.tag = "layer"
        /\ IF ~Falsy(before.lid) THEN ret.lid = before.lid
           ELSE ShortBase36(ret.lid)
  /\ (pc = "returned" /\ before.type = "LAYERCOLLECTION")
     => ret.tag \in {"array", "throw"}

\* C2 witness: a call without lid has returned a layer with a generated
\* identifier of a single character
C2_Witness ==
  /\ pc = "returned" /\ before.type \in LayerTypes /\ before.lid = undefinedStr
  /\ ret.tag = "layer" /\ Len(ret.lid) = 1

\* what an entry e of a fulfilled collection call has become
EntryBuilt(e, x) ==
  IF e.type \in LayerTypes
  THEN /\ x.tag = "layer"
       /\ x.source = SourceOf(e.type)
       /\ x.name = e.name
       /\ IF ~Falsy(e.name) THEN x.lid = e.name ELSE ShortBase36(x.lid)
  ELSE IF IsCollection(e) THEN x.tag = "array"
  ELSE x = Null

C4_AllOrNothing == AnyFailure => ret.tag = "throw"

\* C4 witness: one entry of the manifest has become a layer, another one has
\* thrown, and the call has failed
C4_Witness ==
  /\ Root \in Mapped
  /\ \E i, j \in 1..Len(calls[Root].elems) :
       calls[Root].elems[i].tag = "layer" /\ calls[Root].elems[j].tag = "throw"
  /\ ret.tag = "throw"

\* C5: a config whose type is not recognized makes the call return null, and
\* as an entry of a manifest it yields a null element without failing the
\* load: a manifest of layer entries and unknown entries is fulfilled.
C5_UnknownIsNull ==
  /\ (pc = "returned" /\ before.type \notin Recognized) => ret = Null
  /\ \A p \in Mapped :
       LET m == calls[p].response IN
       /\ \A i \in 1..Len(m) :
            m[i].type \notin Recognized => calls[p].elems[i] = Null
       /\ (\A i \in 1..Len(m) :
             m[i].type \notin {"VECTOR", "VECTORTILE", "LAYERCOLLECTION"})
            => /\ Outcome(calls, p).tag = "array"
               /\ \A i \in 1..Len(m) :
                    m[i].type \notin Recognized => Outcome(calls, p).items[i] = Null

\* C5 witness: the caller has received an array whose first element is the
\* null of an entry of unknown type
C5_Witness ==
  /\ ret.tag = "array"
  /\ Root \in Mapped
  /\ calls[Root].response = <<eUnk, eOsm>>
  /\ ret.items[1] = Null /\ ret.items[2].tag = "layer"

\* C6 (as claimed): a layer built from a config of a layer type gives back
\* the config's visible, opacity and extent.
C6_RoundTrip ==
  (pc = "returned" /\ ret.tag = "layer") =>
     /\ ret.visible = before.visible
     /\ ret.opacity = before.opacity
     /\ ret.extent = before.extent

\* C7 (as claimed): a VECTOR or VECTORTILE config whose format is none of
\* MVT, GeoJSON, TopoJSON, KML makes the call fail; for the other layer types
\* and for an unknown type the format causes no failure.
C7_UnsupportedFormat ==
  pc = "returned" =>
    /\ (before.type \in {"VECTOR", "VECTORTILE"} /\ before.format \notin SupportedFormats)
         => ret.tag = "throw"
    /\ before.type \notin {"VECTOR", "VECTORTILE", "LAYERCOLLECTION"}
         => ret.tag # "throw"

\* C8 (as claimed): after a call the caller's config has the field values it
\* had before the call, and the format table is unchanged.
C8_Original ==
  ncalls > 0 => (lConf = before /\ formatMapping = FormatTable)

\* C8 (amended): after a call the caller's config has the field values it had
\* before the call except lid, which the call has set to the generated
\* identifier if it was missing or empty; the format table is unchanged; so
\* a call on a config that already has a non-empty lid (a second call, after
\* the first has stored one) leaves the config as it is.
C8_Frame ==
  /\ formatMapping = FormatTable
  /\ ncalls > 0 =>
       /\ [lConf EXCEPT !.lid = before.lid] = before
       /\ IF ~Falsy(before.lid) THEN lConf.lid = before.lid
          ELSE ShortBase36(lConf.lid)

\* C8 witness: the first call has stored a generated lid in a config that had
\* none, and the second call has kept it
C8_Witness ==
  /\ ncalls = 2 /\ pc = "returned"
  /\ NonEmpty(before.lid) /\ lConf = before
  /\ Len(before.lid) = 5

\* C9 (as claimed): the factory never has more than one fetch in flight.
C9_Original == NumInFlight <= 1

\* C9 (amended): the factory has at most one fetch in flight as long as no
\* fetched manifest contains two or more LAYERCOLLECTION entries (the nested
\* collections of one manifest are fetched concurrently).
C9_OneFetch ==
  (\A p \in Mapped : NumCollections(calls[p].response) <= 1)
     => NumInFlight <= 1

\* C9 witness: the fetch of a nested collection is in flight, and the
\* manifest it comes from has a layer entry besides the collection
C9_Witness ==
  /\ \A p \in Mapped : NumCollections(calls[p].response) <= 1
  /\ Root \in Mapped
  /\ calls[Root].response = <<eColl2, eVec>>
  /\ InFlight = {<<0, 1>>}

\* C10 (as claimed): if every fetch completes, a call on a LAYERCOLLECTION
\* config eventually resolves to an array or fails.
C10_Original == (pc = "awaiting") ~> (pc = "returned")

\* C10 (amended): if every fetch completes, a call on a LAYERCOLLECTION config
\* eventually resolves to an array or fails, unless a nested collection loads
\* the url of a collection that encloses it.
C10_Terminates == (pc = "awaiting") ~> (pc = "returned" \/ ReEntered)

\* C10 witness: the caller has received the array of a load with a nested
\* collection that refers to another manifest
C10_Witness ==
  /\ pc = "returned" /\ ret.tag = "array"
  /\ <<0, 1>> \in Mapped
  /\ ~ReEntered

====
